---------------------------- MODULE Spec2Model ----------------------------
(***************************************************************************)
(* Model of the colour-harmony scoring and outfit-generation engine of     *)
(* color-harmony-closet (colorMatching.js, colorExtraction.js, storage.js).*)
(*                                                                         *)
(* Conventions                                                             *)
(*  - a colour is a triple <<h, s, l>> of integers, as rgbToHsl rounds it; *)
(*  - a string that the code sorts, joins or compares character by         *)
(*    character (an item id) is a sequence of UTF-16 code units;           *)
(*  - scoreOutfitCombination adds and subtracts multiples of 0.5, so its   *)
(*    score is kept in HALF POINTS (twice the JavaScript number);          *)
(*    calculateColorHarmony only adds integers and is kept in points;      *)
(*  - the mean saturation is kept as the pair (sum, count): sum/count > k  *)
(*    is sum > k * count.                                                  *)
(***************************************************************************)
EXTENDS Integers, Sequences, FiniteSets, TLC

VARIABLES
    wardrobe,        \* the grouped wardrobe handed to generateOutfitSuggestions
    isFormal,        \* argument isFormal
    maxSuggestions,  \* argument maxSuggestions
    pc,              \* position in the running call: "idle" | "loop" | "done" in
                     \* generateOutfitSuggestions, "call" | "done" in a scorer
    suggestions,     \* local array suggestions (accepted candidates, in order)
    attempts,        \* local counter attempts
    returned,        \* the array the call returned
    admitted,        \* history: the combinationIds (line 443) and the combination
                     \* of each accepted draw, in order of acceptance
    hslA, hslB,      \* arguments of calculateColorHarmony
    scoreItems,      \* argument items of scoreOutfitCombination
    harmony,         \* result of calculateColorHarmony (once pc = "done")
    scoring,         \* result of scoreOutfitCombination (once pc = "done")
    callArgs,        \* arguments of the colour or storage helper under call
    callResult,      \* its result (once pc = "done")
    storage          \* localStorage: the parsed arrays under saved_outfits and
                     \* wardrobe_items

genVars   == <<wardrobe, isFormal, maxSuggestions, pc, suggestions, attempts, returned,
               admitted>>
genVarsButPc == <<wardrobe, isFormal, maxSuggestions, suggestions, attempts, returned,
                  admitted>>
scoreVars == <<hslA, hslB, scoreItems, harmony, scoring>>
otherVars == <<callArgs, callResult, storage>>
vars      == <<wardrobe, isFormal, maxSuggestions, pc, suggestions, attempts, returned,
               admitted, hslA, hslB, scoreItems, harmony, scoring,
               callArgs, callResult, storage>>

-----------------------------------------------------------------------------
(* Generic helpers                                                         *)

Min(a, b) == IF a <= b THEN a ELSE b

Abs(a) == IF a < 0 THEN -a ELSE a

Range(seq) == { seq[i] : i \in 1..Len(seq) }

-----------------------------------------------------------------------------
(* Colour model: colorExtraction.js                                        *)

Max3(a, b, c) == IF a >= b /\ a >= c THEN a ELSE IF b >= c THEN b ELSE c

Min3(a, b, c) == IF a <= b /\ a <= c THEN a ELSE IF b <= c THEN b ELSE c

\* A mutation of RoundQuotient: the quotient is cut, not rounded.
RoundQuotientDown(p, q) == { p \div q }

\* Math.round of the quotient p / q (p >= 0, q > 0) that the code computes in
\* double precision: the nearest integer; where the quotient lies exactly on a
\* half, the rounding errors of the divisions decide between its two neighbours.
RoundQuotient(p, q) ==
    IF (2 * p) % q = 0 /\ ((2 * p) \div q) % 2 = 1
    THEN { p \div q, p \div q + 1 }
    ELSE { (2 * p + q) \div (2 * q) }

\* The values rgbToHsl(r, g, b) can return for integer channels in 0..255, in the
\* arithmetic of the channels: max + min of the code is (max + min) / 255 here,
\* d is d / 255.
rgbToHsl(r, g, b) ==
    LET max == Max3(r, g, b)
        min == Min3(r, g, b)
        d   == max - min
        l   == RoundQuotient(100 * (max + min), 510)
        s   == IF max + min > 255
               THEN RoundQuotient(100 * d, 510 - max - min)
               ELSE RoundQuotient(100 * d, max + min)
        h   == IF max = r
               THEN RoundQuotient(60 * (g - b) + (IF g < b THEN 360 * d ELSE 0), d)
               ELSE IF max = g
               THEN RoundQuotient(60 * (b - r) + 120 * d, d)
               ELSE RoundQuotient(60 * (r - g) + 240 * d, d)
    IN  IF max = min
        THEN { <<0, 0, x>> : x \in l }
        ELSE { <<x, y, z>> : x \in h, y \in s, z \in l }

\* A mutation of isNeutralColor: the beige/tan range is not tested.
isNeutralColorNoBeige(hsl) ==
    LET s == hsl[2]
        l == hsl[3]
    IN  IF s < 12 THEN TRUE
        ELSE IF l > 85 \/ l < 15 THEN TRUE
        ELSE FALSE

isNeutralColor(hsl) ==
    LET h == hsl[1]
        s == hsl[2]
        l == hsl[3]
    IN  IF s < 12 THEN TRUE
        ELSE IF l > 85 \/ l < 15 THEN TRUE
        ELSE IF h >= 30 /\ h <= 60 /\ s < 40 THEN TRUE
        ELSE FALSE

-----------------------------------------------------------------------------
(* Harmony scorer: colorMatching.js                                        *)

\* A mutation of hueDifference: the distance is not taken around the circle.
hueDifferenceNoWrap(h1, h2) == Abs(h1 - h2)

hueDifference(h1, h2) ==
    LET diff == Abs(h1 - h2)
    IN  Min(diff, 360 - diff)

\* A mutation of calculateColorHarmony: the contrast bonus wants the dark colour
\* first.
calculateColorHarmonyDarkFirst(hsl1, hsl2, isFormalContext) ==
    LET hueDistance == hueDifference(hsl1[1], hsl2[1])
    IN  (IF hueDistance >= 150 /\ hueDistance <= 210 THEN 2
         ELSE IF hueDistance <= 30 THEN 1 ELSE 0)
      + (IF hsl1[3] < 30 /\ hsl2[3] > 70 THEN 1 ELSE 0)
      + (IF (isNeutralColor(hsl1) \/ isNeutralColor(hsl2)) /\ isFormalContext
         THEN 1 ELSE 0)

\* A mutation of calculateColorHarmony: the neutral bonus is not style-gated.
calculateColorHarmonyUngated(hsl1, hsl2, isFormalContext) ==
    LET hueDistance == hueDifference(hsl1[1], hsl2[1])
        l1 == hsl1[3]
        l2 == hsl2[3]
    IN  (IF hueDistance >= 150 /\ hueDistance <= 210 THEN 2
         ELSE IF hueDistance <= 30 THEN 1 ELSE 0)
      + (IF (l1 < 30 /\ l2 > 70) \/ (l2 < 30 /\ l1 > 70) THEN 1 ELSE 0)
      + (IF isNeutralColor(hsl1) \/ isNeutralColor(hsl2) THEN 1 ELSE 0)

calculateColorHarmony(hsl1, hsl2, isFormalContext) ==
    LET h1 == hsl1[1]
        l1 == hsl1[3]
        h2 == hsl2[1]
        l2 == hsl2[3]
        hueDistance == hueDifference(h1, h2)
        isNeutral1 == isNeutralColor(hsl1)
        isNeutral2 == isNeutralColor(hsl2)
        hueScore == IF hueDistance >= 150 /\ hueDistance <= 210 THEN 2
                    ELSE IF hueDistance <= 30 THEN 1
                    ELSE 0
        contrast == IF (l1 < 30 /\ l2 > 70) \/ (l2 < 30 /\ l1 > 70) THEN 1 ELSE 0
        neutral  == IF isNeutral1 \/ isNeutral2
                    THEN (IF isFormalContext THEN 1 ELSE 0)
                    ELSE 0
    IN  hueScore + contrast + neutral

-----------------------------------------------------------------------------
(* Outfit scorer: colorMatching.js                                         *)

\* String.prototype.toLowerCase on the category spellings the model uses.
toLowerCase(c) ==
    CASE c \in {"Tops", "TOPS", "tops"}                      -> "tops"
      [] c \in {"Bottoms", "BOTTOMS", "bottoms"}             -> "bottoms"
      [] c \in {"Footwear", "FOOTWEAR", "footwear"}          -> "footwear"
      [] c \in {"Accessories", "ACCESSORIES", "accessories"} -> "accessories"
      [] OTHER                                               -> c

\* The index pairs (i, j), i < j, in the order the two nested loops visit them,
\* starting at (i, j), for an array of n elements (1-based).
RECURSIVE PairsFrom(_, _, _)
PairsFrom(i, j, n) ==
    IF i > n THEN <<>>
    ELSE IF j > n THEN PairsFrom(i + 1, i + 2, n)
    ELSE <<<<i, j>>>> \o PairsFrom(i, j + 1, n)

Pairs(n) == PairsFrom(1, 2, n)

\* The template `${item1.category} + ${item2.category}: <label>`, kept as its parts.
Detail(item1, item2, label) ==
    [first |-> item1.category, second |-> item2.category, label |-> label]

\* A mutation of PairDetails: the neutral pairing is pushed before the hue detail.
PairDetailsNeutralFirst(item1, item2, formal) ==
    LET hueDistance == hueDifference(item1.hsl[1], item2.hsl[1])
    IN  IF calculateColorHarmony(item1.hsl, item2.hsl, formal) > 0
        THEN (IF isNeutralColor(item1.hsl) \/ isNeutralColor(item2.hsl)
              THEN <<Detail(item1, item2, "neutral pairing")>>
              ELSE <<>>)
             \o (IF hueDistance >= 150 /\ hueDistance <= 210
                 THEN <<Detail(item1, item2, "complementary colors")>>
                 ELSE IF hueDistance <= 30
                 THEN <<Detail(item1, item2, "analogous harmony")>>
                 ELSE <<>>)
        ELSE <<>>

\* A mutation of PairDetails: details are pushed whatever the pair's score.
PairDetailsUngated(item1, item2, formal) ==
    LET hueDistance == hueDifference(item1.hsl[1], item2.hsl[1])
    IN  (IF hueDistance >= 150 /\ hueDistance <= 210
         THEN <<Detail(item1, item2, "complementary colors")>>
         ELSE IF hueDistance <= 30
         THEN <<Detail(item1, item2, "analogous harmony")>>
         ELSE <<>>)
        \o (IF isNeutralColor(item1.hsl) \/ isNeutralColor(item2.hsl)
            THEN <<Detail(item1, item2, "neutral pairing")>>
            ELSE <<>>)

\* The details one pair pushes onto harmonyDetails (loop body, lines 302-316).
PairDetails(item1, item2, formal) ==
    LET harmonyScore == calculateColorHarmony(item1.hsl, item2.hsl, formal)
        hueDistance  == hueDifference(item1.hsl[1], item2.hsl[1])
        hueDetail    == IF hueDistance >= 150 /\ hueDistance <= 210
                        THEN <<Detail(item1, item2, "complementary colors")>>
                        ELSE IF hueDistance <= 30
                        THEN <<Detail(item1, item2, "analogous harmony")>>
                        ELSE <<>>
        neutralDetail == IF isNeutralColor(item1.hsl) \/ isNeutralColor(item2.hsl)
                         THEN <<Detail(item1, item2, "neutral pairing")>>
                         ELSE <<>>
    IN  IF harmonyScore > 0 THEN hueDetail \o neutralDetail ELSE <<>>

RECURSIVE HarmonyDetailsOver(_, _, _)
HarmonyDetailsOver(items, formal, pairs) ==
    IF pairs = <<>> THEN <<>>
    ELSE PairDetails(items[Head(pairs)[1]], items[Head(pairs)[2]], formal)
           \o HarmonyDetailsOver(items, formal, Tail(pairs))

RECURSIVE PairScoreOver(_, _, _)
PairScoreOver(items, formal, pairs) ==
    IF pairs = <<>> THEN 0
    ELSE calculateColorHarmony(items[Head(pairs)[1]].hsl, items[Head(pairs)[2]].hsl, formal)
           + PairScoreOver(items, formal, Tail(pairs))

\* A mutation of NeutralCount: the last item is not tested.
NeutralCountSkipLast(items) ==
    Cardinality({ i \in 1..(Len(items) - 1) : isNeutralColor(items[i].hsl) })

NeutralCount(items) == Cardinality({ i \in 1..Len(items) : isNeutralColor(items[i].hsl) })

RECURSIVE SaturationSum(_)
SaturationSum(items) ==
    IF items = <<>> THEN 0 ELSE Head(items).hsl[2] + SaturationSum(Tail(items))

\* Math.round(sum / count) for sum >= 0, count > 0.
RoundedMean(sum, count) == (2 * sum + count) \div (2 * count)

\* A mutation of StyleAdjustment: the formal penalty starts at a mean of 55.
StyleAdjustmentAtLeast(formal, neutralCount, satSum, count) ==
    IF formal
    THEN neutralCount - (IF satSum >= 55 * count THEN 2 ELSE 0)
    ELSE (IF satSum > 40 * count THEN 1 ELSE 0)

\* A mutation of StyleAdjustment: the penalty is two points.
StyleAdjustmentHeavyPenalty(formal, neutralCount, satSum, count) ==
    IF formal
    THEN neutralCount - (IF satSum > 55 * count THEN 4 ELSE 0)
    ELSE (IF satSum > 40 * count THEN 1 ELSE 0)

\* The style adjustment of lines 328-339, in half points.
StyleAdjustment(formal, neutralCount, satSum, count) ==
    IF formal
    THEN neutralCount - (IF satSum > 55 * count THEN 2 ELSE 0)
    ELSE (IF satSum > 40 * count THEN 1 ELSE 0)

\* Array.prototype.join on an array of token sequences.
RECURSIVE JoinTokens(_, _)
JoinTokens(parts, sep) ==
    IF parts = <<>> THEN <<>>
    ELSE IF Len(parts) = 1 THEN Head(parts)
    ELSE Head(parts) \o <<sep>> \o JoinTokens(Tail(parts), sep)

\* `${item.hex} ${item.category.toLowerCase()}`: wardrobe items carry
\* dominantColorHex and no hex field, so the template prints "undefined".
ItemName(item) == <<"undefined", " ", toLowerCase(item.category)>>

\* A mutation of generateOutfitExplanation: the last recorded detail is quoted.
generateOutfitExplanationLastDetail(items, harmonyDetails, formal, neutralCount, satSum) ==
    LET count     == Len(items)
        itemNames == JoinTokens([i \in 1..count |-> ItemName(items[i])], " + ")
        neutralClause ==
            IF neutralCount > 0
            THEN IF neutralCount = count
                 THEN <<"All neutral palette">>
                 ELSE <<ToString(neutralCount), " neutral item">>
                        \o (IF neutralCount > 1 THEN <<"s">> ELSE <<>>)
                        \o <<" provide balance">>
            ELSE <<>>
        harmonyClause ==
            IF Len(harmonyDetails) > 0
            THEN (IF neutralClause # <<>> THEN <<"; ">> ELSE <<>>)
                   \o <<harmonyDetails[Len(harmonyDetails)].label>>
            ELSE <<>>
        closing ==
            IF formal /\ neutralCount > 0
            THEN <<" -- professional and sophisticated">>
            ELSE IF ~formal /\ satSum > 50 * count
            THEN <<" -- vibrant and expressive">>
            ELSE <<>>
    IN  IF Len(harmonyDetails) = 0 /\ neutralCount = 0
        THEN itemNames \o <<" -- ", "experimental color combination for ",
                            IF formal THEN "formal" ELSE "casual", " wear">>
        ELSE itemNames \o <<" -- ">> \o neutralClause \o harmonyClause \o closing

\* A mutation of generateOutfitExplanation: a mean saturation of 50 is vibrant.
generateOutfitExplanationVibrantAtFifty(items, harmonyDetails, formal, neutralCount, satSum) ==
    LET count     == Len(items)
        itemNames == JoinTokens([i \in 1..count |-> ItemName(items[i])], " + ")
        neutralClause ==
            IF neutralCount > 0
            THEN IF neutralCount = count
                 THEN <<"All neutral palette">>
                 ELSE <<ToString(neutralCount), " neutral item">>
                        \o (IF neutralCount > 1 THEN <<"s">> ELSE <<>>)
                        \o <<" provide balance">>
            ELSE <<>>
        harmonyClause ==
            IF Len(harmonyDetails) > 0
            THEN (IF neutralClause # <<>> THEN <<"; ">> ELSE <<>>)
                   \o <<harmonyDetails[1].label>>
            ELSE <<>>
        closing ==
            IF formal /\ neutralCount > 0
            THEN <<" -- professional and sophisticated">>
            ELSE IF ~formal /\ satSum >= 50 * count
            THEN <<" -- vibrant and expressive">>
            ELSE <<>>
    IN  IF Len(harmonyDetails) = 0 /\ neutralCount = 0
        THEN itemNames \o <<" -- ", "experimental color combination for ",
                            IF formal THEN "formal" ELSE "casual", " wear">>
        ELSE itemNames \o <<" -- ">> \o neutralClause \o harmonyClause \o closing

\* generateOutfitExplanation; the string is kept as the sequence of the pieces
\* the code concatenates ("--" stands for the em dash U+2014).
generateOutfitExplanation(items, harmonyDetails, formal, neutralCount, satSum) ==
    LET count     == Len(items)
        itemNames == JoinTokens([i \in 1..count |-> ItemName(items[i])], " + ")
        neutralClause ==
            IF neutralCount > 0
            THEN IF neutralCount = count
                 THEN <<"All neutral palette">>
                 ELSE <<ToString(neutralCount), " neutral item">>
                        \o (IF neutralCount > 1 THEN <<"s">> ELSE <<>>)
                        \o <<" provide balance">>
            ELSE <<>>
        harmonyClause ==
            IF Len(harmonyDetails) > 0
            THEN (IF neutralClause # <<>> THEN <<"; ">> ELSE <<>>)
                   \o <<harmonyDetails[1].label>>
            ELSE <<>>
        closing ==
            IF formal /\ neutralCount > 0
            THEN <<" -- professional and sophisticated">>
            ELSE IF ~formal /\ satSum > 50 * count
            THEN <<" -- vibrant and expressive">>
            ELSE <<>>
    IN  IF Len(harmonyDetails) = 0 /\ neutralCount = 0
        THEN itemNames \o <<" -- ", "experimental color combination for ",
                            IF formal THEN "formal" ELSE "casual", " wear">>
        ELSE itemNames \o <<" -- ">> \o neutralClause \o harmonyClause \o closing

\* The value scoring holds while no result has been returned.
NoResult == [score |-> 0, explanation |-> <<>>]

NotEnoughItems == [score |-> 0, explanation |-> <<"Not enough items for scoring">>]

\* A mutation of scoreOutfitCombination: the guard admits a single item.
scoreOutfitCombinationNoGuard(items, formal) ==
    IF Len(items) < 1
    THEN NotEnoughItems
    ELSE [score |-> 2 * PairScoreOver(items, formal, Pairs(Len(items)))
                      + StyleAdjustment(formal, NeutralCount(items),
                                        SaturationSum(items), Len(items)),
          explanation |-> generateOutfitExplanation(
                              items, HarmonyDetailsOver(items, formal, Pairs(Len(items))),
                              formal, NeutralCount(items), SaturationSum(items)),
          details |-> [harmonyDetails |-> HarmonyDetailsOver(items, formal, Pairs(Len(items))),
                       neutralCount   |-> NeutralCount(items),
                       avgSaturation  |-> RoundedMean(SaturationSum(items), Len(items))]]

\* scoreOutfitCombination; score is in half points.
scoreOutfitCombination(items, formal) ==
    IF Len(items) < 2
    THEN NotEnoughItems
    ELSE LET count          == Len(items)
             pairs          == Pairs(count)
             harmonyDetails == HarmonyDetailsOver(items, formal, pairs)
             neutralCount   == NeutralCount(items)
             satSum         == SaturationSum(items)
             totalScore     == 2 * PairScoreOver(items, formal, pairs)
                                 + StyleAdjustment(formal, neutralCount, satSum, count)
         IN  [score       |-> totalScore,
              explanation |-> generateOutfitExplanation(items, harmonyDetails, formal,
                                                        neutralCount, satSum),
              details     |-> [harmonyDetails |-> harmonyDetails,
                               neutralCount   |-> neutralCount,
                               avgSaturation  |-> RoundedMean(satSum, count)]]

-----------------------------------------------------------------------------
(* Wardrobe items and grouping: UploadWardrobe.jsx, storage.js             *)

\* `item-${Date.now()}-${Math.random().toString(36).substr(2, 9)}` as code units:
\* "item-" is 105 116 101 109 45, "-" is 45.
ItemId(stamp, rnd) == <<105, 116, 101, 109, 45>> \o stamp \o <<45>> \o rnd

\* The record handleFileUpload builds, without its display-only fields.
NewItem(stamp, rnd, category, hsl) ==
    [id |-> ItemId(stamp, rnd), category |-> category, hsl |-> hsl]

\* The stored items the model draws wardrobes from, in upload order.
\* Stamps "1".."3" are 49..51, random parts "a".."c" are 97..99.
Universe ==
    << NewItem(<<49>>, <<97>>, "Tops",        <<0, 80, 20>>),
       NewItem(<<49>>, <<98>>, "Bottoms",     <<180, 60, 80>>),
       NewItem(<<50>>, <<97>>, "Bottoms",     <<45, 20, 50>>),
       NewItem(<<50>>, <<99>>, "Footwear",    <<10, 50, 50>>),
       NewItem(<<51>>, <<98>>, "Accessories", <<200, 5, 90>>) >>

\* The elements of seq at the positions in keep, in their order in seq.
RECURSIVE SubSeqAt(_, _, _)
SubSeqAt(seq, keep, i) ==
    IF i > Len(seq) THEN <<>>
    ELSE (IF i \in keep THEN <<seq[i]>> ELSE <<>>) \o SubSeqAt(seq, keep, i + 1)

\* Array.prototype.filter by category key, order kept.
RECURSIVE ItemsOfCategory(_, _)
ItemsOfCategory(items, key) ==
    IF items = <<>> THEN <<>>
    ELSE (IF toLowerCase(Head(items).category) = key THEN <<Head(items)>> ELSE <<>>)
           \o ItemsOfCategory(Tail(items), key)

\* A mutation of groupItemsByCategory: the buckets are keyed by the category as
\* it is spelt.
groupItemsByCategoryCaseSensitive(items) ==
    [key \in { items[i].category : i \in 1..Len(items) }
        |-> SelectSeq(items, LAMBDA item : item.category = key)]

\* groupItemsByCategory: one bucket per lower-cased category that occurs.
groupItemsByCategory(items) ==
    [key \in { toLowerCase(items[i].category) : i \in 1..Len(items) }
        |-> ItemsOfCategory(items, key)]

\* `const { tops = [], ... } = wardrobe`: a missing bucket is the empty array.
Bucket(w, key) == IF key \in DOMAIN w THEN w[key] ELSE <<>>

-----------------------------------------------------------------------------
(* Candidate generator: colorMatching.js, generateOutfitSuggestions        *)

maxCandidates == 200

\* The largest maxSuggestions a call is given under Spec.
MaxSuggestions == 2

\* The largest maxSuggestions a call is given under SpecOneEach; it exceeds the
\* number of distinct outfits a one-item-per-bucket wardrobe can yield.
MaxSuggestionsOneEach == 5

\* s < t in the order Array.prototype.sort gives strings (UTF-16 code units).
StrLess(s, t) ==
    LET differ == { i \in 1..Min(Len(s), Len(t)) : s[i] # t[i] }
        first  == CHOOSE i \in differ : \A j \in differ : i <= j
    IN  IF differ = {} THEN Len(s) < Len(t) ELSE s[first] < t[first]

\* x put into the ascending sequence sorted.
RECURSIVE InsertStr(_, _)
InsertStr(x, sorted) ==
    IF sorted = <<>> THEN <<x>>
    ELSE IF StrLess(x, Head(sorted)) THEN <<x>> \o sorted
    ELSE <<Head(sorted)>> \o InsertStr(x, Tail(sorted))

\* Array.prototype.sort() with the default comparison.
RECURSIVE SortStrings(_)
SortStrings(strs) ==
    IF strs = <<>> THEN <<>>
    ELSE InsertStr(Head(strs), SortStrings(Tail(strs)))

\* Array.prototype.join('-') on strings.
RECURSIVE JoinDash(_)
JoinDash(strs) ==
    IF strs = <<>> THEN <<>>
    ELSE IF Len(strs) = 1 THEN Head(strs)
    ELSE Head(strs) \o <<45>> \o JoinDash(Tail(strs))

ItemIds(items) == [i \in 1..Len(items) |-> items[i].id]

\* items.map(item => item.id).sort().join('-')
CombinationKey(items) == JoinDash(SortStrings(ItemIds(items)))

\* A mutation of Exists: the comparison never matches (arrays compared by
\* reference).
ExistsNever(suggs, combination) == FALSE

\* A mutation of Exists: only the last accepted suggestion is compared.
ExistsLast(suggs, combination) ==
    /\ suggs # <<>>
    /\ CombinationKey(suggs[Len(suggs)].items) = CombinationKey(combination)

\* suggestions.some(suggestion => key(suggestion.items) === combinationIds)
Exists(suggs, combination) ==
    \E k \in 1..Len(suggs) : CombinationKey(suggs[k].items) = CombinationKey(combination)

\* The indices Math.floor(Math.random() * bucket.length) can give (1-based);
\* 0 stands for "no draw" from an empty bucket.
DrawIndex(bucket) == IF Len(bucket) = 0 THEN {0} ELSE 1..Len(bucket)

\* A mutation of Combination: footwear is pushed before the bottom.
CombinationSwapped(w, ti, bi, useF, fi, useA, ai) ==
    (IF Len(Bucket(w, "tops")) > 0 THEN <<Bucket(w, "tops")[ti]>> ELSE <<>>)
    \o (IF Len(Bucket(w, "footwear")) > 0 /\ useF THEN <<Bucket(w, "footwear")[fi]>> ELSE <<>>)
    \o (IF Len(Bucket(w, "bottoms")) > 0 THEN <<Bucket(w, "bottoms")[bi]>> ELSE <<>>)
    \o (IF Len(Bucket(w, "accessories")) > 0 /\ useA
        THEN <<Bucket(w, "accessories")[ai]>> ELSE <<>>)

\* The array one loop iteration assembles (lines 414-434): ti, bi, fi, ai are the
\* random indices, useF and useA the outcomes of Math.random() > 0.3 and > 0.5.
Combination(w, ti, bi, useF, fi, useA, ai) ==
    LET tops        == Bucket(w, "tops")
        bottoms     == Bucket(w, "bottoms")
        footwear    == Bucket(w, "footwear")
        accessories == Bucket(w, "accessories")
    IN  (IF Len(tops) > 0 THEN <<tops[ti]>> ELSE <<>>)
        \o (IF Len(bottoms) > 0 THEN <<bottoms[bi]>> ELSE <<>>)
        \o (IF Len(footwear) > 0 /\ useF THEN <<footwear[fi]>> ELSE <<>>)
        \o (IF Len(accessories) > 0 /\ useA THEN <<accessories[ai]>> ELSE <<>>)

\* A mutation of Suggestion: the combination is scored under the other style.
SuggestionOtherStyle(combination, formal) ==
    LET result == scoreOutfitCombination(combination, ~formal)
    IN  [items       |-> combination,
         score       |-> result.score,
         explanation |-> result.explanation,
         details     |-> IF "details" \in DOMAIN result THEN result.details
                         ELSE "undefined",
         style       |-> IF formal THEN "formal" ELSE "casual"]

\* A mutation of Suggestion: the stored item list lacks the first item drawn.
SuggestionWithoutTop(combination, formal) ==
    LET result == scoreOutfitCombination(combination, formal)
    IN  [items       |-> Tail(combination),
         score       |-> result.score,
         explanation |-> result.explanation,
         details     |-> IF "details" \in DOMAIN result THEN result.details
                         ELSE "undefined",
         style       |-> IF formal THEN "formal" ELSE "casual"]

\* The object pushed onto suggestions (lines 449-457); its id and timestamp,
\* read from the clock and the random source, are not kept.
Suggestion(combination, formal) ==
    LET result == scoreOutfitCombination(combination, formal)
    IN  [items       |-> combination,
         score       |-> result.score,
         explanation |-> result.explanation,
         details     |-> IF "details" \in DOMAIN result THEN result.details
                         ELSE "undefined",
         style       |-> IF formal THEN "formal" ELSE "casual"]

\* x put into the sequence sorted (descending by score) after every element that
\* does not compare after it: the comparator is b.score - a.score and the sort
\* is stable.
RECURSIVE InsertByScore(_, _)
InsertByScore(x, sorted) ==
    IF sorted = <<>> THEN <<x>>
    ELSE IF Head(sorted).score >= x.score
         THEN <<Head(sorted)>> \o InsertByScore(x, Tail(sorted))
         ELSE <<x>> \o sorted

RECURSIVE SortByScoreFrom(_, _)
SortByScoreFrom(suggs, sorted) ==
    IF suggs = <<>> THEN sorted
    ELSE SortByScoreFrom(Tail(suggs), InsertByScore(Head(suggs), sorted))

\* A mutation of SortByScore: the array is returned in acceptance order.
SortByScoreNone(suggs) == suggs

\* suggestions.sort((a, b) => b.score - a.score)
SortByScore(suggs) == SortByScoreFrom(suggs, <<>>)

\* Array.prototype.slice(0, n) for n >= 0.
Slice(seq, n) == SubSeq(seq, 1, Min(n, Len(seq)))

\* A mutation of NoViableBase: the early return is missing.
NoViableBaseNever(w) == FALSE

\* tops.length === 0 && bottoms.length === 0 (line 402)
NoViableBase(w) == Len(Bucket(w, "tops")) = 0 /\ Len(Bucket(w, "bottoms")) = 0

\* A mutation of LoopContinues: the attempt ceiling is off by one.
\* A mutation of LoopContinues: the loop runs until maxSuggestions is exceeded.
LoopContinuesOneMore(suggs, att, max) == Len(suggs) <= max /\ att < maxCandidates

LoopContinuesOffByOne(suggs, att, max) == Len(suggs) < max /\ att <= maxCandidates

\* suggestions.length < maxSuggestions && attempts < maxCandidates (line 411)
LoopContinues(suggs, att, max) == Len(suggs) < max /\ att < maxCandidates

\* A mutation of EnoughItems: a draw needs three items.
EnoughItemsThree(combination) == Len(combination) >= 3

\* A mutation of EnoughItems: a single item is enough.
EnoughItemsOne(combination) == Len(combination) >= 1

\* the negation of `combination.length < 2` (line 437)
EnoughItems(combination) == Len(combination) >= 2

-----------------------------------------------------------------------------
(* generateOutfitSuggestions as a state machine                            *)

\* No call of the scorers is in progress (the generator's specifications).
ScorerIdle ==
    /\ hslA = <<>>
    /\ hslB = <<>>
    /\ scoreItems = <<>>
    /\ harmony = 0
    /\ scoring = NoResult

\* No call of the generator is in progress (the scorers' specifications).
GeneratorIdle ==
    /\ wardrobe = groupItemsByCategory(<<>>)
    /\ maxSuggestions = 0
    /\ suggestions = <<>>
    /\ attempts = 0
    /\ returned = <<>>
    /\ admitted = <<>>

\* localStorage with nothing saved.
EmptyStorage == [saved_outfits |-> <<>>, wardrobe_items |-> <<>>]

\* The value callArgs holds while no helper is under call.
NoCall == [fn |-> "none", args |-> <<>>]

\* No call of a colour or storage helper is in progress and nothing is stored.
OthersIdle ==
    /\ callArgs = NoCall
    /\ callResult = <<>>
    /\ storage = EmptyStorage

\* The wardrobes generateSuggestions can hand over: the stored items are any
\* selection of Universe, grouped by groupItemsByCategory.
Wardrobes ==
    { groupItemsByCategory(SubSeqAt(Universe, keep, 1)) : keep \in SUBSET (1..Len(Universe)) }

\* The positions of Universe that hold the first item of their category.
FirstOfCategory ==
    { i \in 1..Len(Universe) :
        \A j \in 1..(i - 1) : Universe[j].category # Universe[i].category }

\* The wardrobes whose buckets hold at most one item each: any selection of the
\* first items of the categories.
WardrobesOneEach ==
    { groupItemsByCategory(SubSeqAt(Universe, keep, 1)) : keep \in SUBSET FirstOfCategory }

Init ==
    /\ wardrobe \in Wardrobes
    /\ isFormal = FALSE
    /\ maxSuggestions = 0
    /\ pc = "idle"
    /\ suggestions = <<>>
    /\ attempts = 0
    /\ returned = <<>>
    /\ admitted = <<>>
    /\ ScorerIdle
    /\ OthersIdle

\* A mutation of Call: the accepted candidates of the call before are kept.
CallKeepingAccepted(formal, n) ==
    /\ pc \in {"idle", "done"}
    /\ isFormal' = formal
    /\ maxSuggestions' = n
    /\ attempts' = 0
    /\ returned' = <<>>
    /\ pc' = IF NoViableBase(wardrobe) THEN "done" ELSE "loop"
    /\ UNCHANGED <<wardrobe, suggestions, admitted, scoreVars, otherVars>>

\* Entry of generateOutfitSuggestions(wardrobe, formal, n): lines 399-408.
Call(formal, n) ==
    /\ pc \in {"idle", "done"}
    /\ isFormal' = formal
    /\ maxSuggestions' = n
    /\ suggestions' = <<>>
    /\ attempts' = 0
    /\ returned' = <<>>
    /\ admitted' = <<>>
    /\ pc' = IF NoViableBase(wardrobe) THEN "done" ELSE "loop"
    /\ UNCHANGED <<wardrobe, scoreVars, otherVars>>

\* One iteration of the sampling loop: lines 411-459.
Iterate ==
    /\ pc = "loop"
    /\ LoopContinues(suggestions, attempts, maxSuggestions)
    /\ \E ti \in DrawIndex(Bucket(wardrobe, "tops")),
          bi \in DrawIndex(Bucket(wardrobe, "bottoms")),
          fi \in DrawIndex(Bucket(wardrobe, "footwear")),
          ai \in DrawIndex(Bucket(wardrobe, "accessories")),
          useF \in BOOLEAN, useA \in BOOLEAN :
            LET combination == Combination(wardrobe, ti, bi, useF, fi, useA, ai)
                accepted    == EnoughItems(combination) /\ ~Exists(suggestions, combination)
            IN  /\ attempts' = attempts + 1
                /\ suggestions' =
                     IF ~EnoughItems(combination) THEN suggestions
                     ELSE IF Exists(suggestions, combination) THEN suggestions
                     ELSE Append(suggestions, Suggestion(combination, isFormal))
                /\ admitted' =
                     IF accepted
                     THEN Append(admitted, [key   |-> CombinationKey(combination),
                                            items |-> combination])
                     ELSE admitted
    /\ UNCHANGED <<wardrobe, isFormal, maxSuggestions, pc, returned, scoreVars, otherVars>>

\* The loop condition fails: sort, slice and return (lines 461-464).
Return ==
    /\ pc = "loop"
    /\ ~LoopContinues(suggestions, attempts, maxSuggestions)
    /\ returned' = Slice(SortByScore(suggestions), maxSuggestions)
    /\ pc' = "done"
    /\ UNCHANGED <<wardrobe, isFormal, maxSuggestions, suggestions, attempts, admitted,
                   scoreVars, otherVars>>

Next ==
    \/ \E formal \in BOOLEAN, n \in 0..MaxSuggestions : Call(formal, n)
    \/ Iterate
    \/ Return

Spec == Init /\ [][Next]_vars

\* The same machine on wardrobes with at most one item per bucket, called with
\* maxSuggestions up to MaxSuggestionsOneEach.
InitOneEach ==
    /\ wardrobe \in WardrobesOneEach
    /\ isFormal = FALSE
    /\ maxSuggestions = 0
    /\ pc = "idle"
    /\ suggestions = <<>>
    /\ attempts = 0
    /\ returned = <<>>
    /\ admitted = <<>>
    /\ ScorerIdle
    /\ OthersIdle

NextOneEach ==
    \/ \E formal \in BOOLEAN, n \in 0..MaxSuggestionsOneEach : Call(formal, n)
    \/ Iterate
    \/ Return

SpecOneEach == InitOneEach /\ [][NextOneEach]_vars

-----------------------------------------------------------------------------
(* calculateColorHarmony applied to colours around every threshold          *)

\* Hues around the analogous (30), complementary (150, 210 - the distance wraps
\* at 180) and beige (30, 60) limits.
Hues == {0, 29, 30, 60, 61, 180, 210, 330}

\* Saturations around the neutral limits 12 and 40.
Saturations == {11, 12, 39, 40, 80}

\* Lightnesses around the neutral limits 15 and 85 and the contrast limits 30, 70.
Lightnesses == {14, 15, 29, 30, 70, 71, 85, 86}

Colors == Hues \X Saturations \X Lightnesses

InitHarmony ==
    /\ hslA \in Colors
    /\ hslB \in Colors
    /\ isFormal \in BOOLEAN
    /\ pc = "call"
    /\ harmony = 0
    /\ scoreItems = <<>>
    /\ scoring = NoResult
    /\ GeneratorIdle
    /\ OthersIdle

\* calculateColorHarmony(hslA, hslB, isFormal) is called and returns.
ApplyHarmony ==
    /\ pc = "call"
    /\ harmony' = calculateColorHarmony(hslA, hslB, isFormal)
    /\ pc' = "done"
    /\ UNCHANGED <<wardrobe, isFormal, maxSuggestions, suggestions, attempts, returned,
                   admitted, hslA, hslB, scoreItems, scoring, otherVars>>

NextHarmony == ApplyHarmony

SpecHarmony == InitHarmony /\ [][NextHarmony]_vars

-----------------------------------------------------------------------------
(* scoreOutfitCombination applied to item lists                            *)

\* The longest item list handed to scoreOutfitCombination (the generator
\* assembles at most four items).
MaxOutfitItems == 4

\* Items the lists are made of: neutral and vivid colours, with saturations whose
\* means fall on and beside the limits 40, 50 and 55.
ScorePool ==
    { NewItem(<<49>>, <<97>>, "Tops",        <<0, 80, 20>>),
      NewItem(<<49>>, <<98>>, "Bottoms",     <<180, 60, 80>>),
      NewItem(<<50>>, <<97>>, "Bottoms",     <<45, 20, 50>>),
      NewItem(<<50>>, <<99>>, "Footwear",    <<10, 50, 50>>),
      NewItem(<<51>>, <<98>>, "Accessories", <<200, 5, 90>>),
      NewItem(<<51>>, <<99>>, "Tops",        <<120, 100, 50>>),
      NewItem(<<52>>, <<97>>, "Footwear",    <<240, 30, 40>>),
      NewItem(<<52>>, <<98>>, "Accessories", <<300, 51, 50>>),
      NewItem(<<53>>, <<97>>, "Tops",        <<100, 5, 90>>) }

ItemLists == UNION { [1..n -> ScorePool] : n \in 0..MaxOutfitItems }

InitScore ==
    /\ scoreItems \in ItemLists
    /\ isFormal \in BOOLEAN
    /\ pc = "call"
    /\ scoring = NoResult
    /\ hslA = <<>>
    /\ hslB = <<>>
    /\ harmony = 0
    /\ GeneratorIdle
    /\ OthersIdle

\* scoreOutfitCombination(scoreItems, isFormal) is called and returns.
ApplyScore ==
    /\ pc = "call"
    /\ scoring' = scoreOutfitCombination(scoreItems, isFormal)
    /\ pc' = "done"
    /\ UNCHANGED <<wardrobe, isFormal, maxSuggestions, suggestions, attempts, returned,
                   admitted, hslA, hslB, scoreItems, harmony, otherVars>>

NextScore == ApplyScore

SpecScore == InitScore /\ [][NextScore]_vars

-----------------------------------------------------------------------------
(* isNeutralColor applied to colours                                       *)

\* Every hue the colour model can produce, and the saturations and lightnesses
\* on and beside the limits 12, 40, 15 and 85.
NeutralHues == 0..360
NeutralSaturations == {0, 5, 11, 12, 20, 39, 40, 80, 100}
NeutralLightnesses == {0, 14, 15, 50, 85, 86, 90, 100}

InitNeutral ==
    /\ callArgs \in { [fn |-> "isNeutralColor", args |-> <<h, s, l>>] :
                         h \in NeutralHues, s \in NeutralSaturations,
                         l \in NeutralLightnesses }
    /\ callResult = FALSE
    /\ storage = EmptyStorage
    /\ pc = "call"
    /\ isFormal = FALSE
    /\ ScorerIdle
    /\ GeneratorIdle

\* isNeutralColor(hsl) is called and returns.
ApplyNeutral ==
    /\ pc = "call"
    /\ callArgs.fn = "isNeutralColor"
    /\ callResult' = isNeutralColor(callArgs.args)
    /\ pc' = "done"
    /\ UNCHANGED <<genVarsButPc, scoreVars, callArgs, storage>>

NextNeutral == ApplyNeutral

SpecNeutral == InitNeutral /\ [][NextNeutral]_vars

-----------------------------------------------------------------------------
(* hueDifference applied to pairs of hues                                  *)

\* The integer degrees of the hue circle.
CircleHues == 0..359

InitHueDifference ==
    /\ callArgs \in { [fn |-> "hueDifference", args |-> <<h1, h2>>] :
                         h1 \in CircleHues, h2 \in CircleHues }
    /\ callResult = 0
    /\ storage = EmptyStorage
    /\ pc = "call"
    /\ isFormal = FALSE
    /\ ScorerIdle
    /\ GeneratorIdle

\* hueDifference(h1, h2) is called and returns.
ApplyHueDifference ==
    /\ pc = "call"
    /\ callArgs.fn = "hueDifference"
    /\ callResult' = hueDifference(callArgs.args[1], callArgs.args[2])
    /\ pc' = "done"
    /\ UNCHANGED <<genVarsButPc, scoreVars, callArgs, storage>>

NextHueDifference == ApplyHueDifference

SpecHueDifference == InitHueDifference /\ [][NextHueDifference]_vars

-----------------------------------------------------------------------------
(* rgbToHsl applied to RGB triples                                         *)

\* Channel values: the ends of the range, every 15th value, and values whose
\* differences put a hue just below 360 or a quotient exactly on a half.
Channels ==
    { 15 * k : k \in 0..17 } \cup {1, 2, 3, 13, 40, 121, 127, 128, 252, 253, 254}

InitRgbToHsl ==
    /\ callArgs \in { [fn |-> "rgbToHsl", args |-> <<r, g, b>>] :
                         r \in Channels, g \in Channels, b \in Channels }
    /\ callResult = <<0, 0, 0>>
    /\ storage = EmptyStorage
    /\ pc = "call"
    /\ isFormal = FALSE
    /\ ScorerIdle
    /\ GeneratorIdle

\* rgbToHsl(r, g, b) is called and returns.
ApplyRgbToHsl ==
    /\ pc = "call"
    /\ callArgs.fn = "rgbToHsl"
    /\ callResult' \in rgbToHsl(callArgs.args[1], callArgs.args[2], callArgs.args[3])
    /\ pc' = "done"
    /\ UNCHANGED <<genVarsButPc, scoreVars, callArgs, storage>>

NextRgbToHsl == ApplyRgbToHsl

SpecRgbToHsl == InitRgbToHsl /\ [][NextRgbToHsl]_vars

-----------------------------------------------------------------------------
(* Saved outfits: storage.js, OutfitSuggestions, SavedOutfits              *)

\* The most outfits kept in storage.
MaxSaved == 3

\* Readings of Date.now() and of Math.random().toString(36).substr(2, 9).
Clock == {1, 2}
RandomTails == {"a", "b"}

\* Identifiers are kept as their parts: `outfit-${Date.now()}-${random}` of a
\* suggestion, `saved-${Date.now()}-${random}` of saveOutfit; <<>> is a missing
\* id.
OutfitId(now, rnd) == <<"outfit", now, rnd>>

SavedId(now, rnd) == <<"saved", now, rnd>>

\* The outfits handed to saveOutfit: two suggestions on display (each carries
\* the id generateOutfitSuggestions gave it) and an outfit without id.
OutfitsToSave ==
    { [id |-> OutfitId(1, "a"), score |-> 8, style |-> "formal"],
      [id |-> OutfitId(1, "b"), score |-> 5, style |-> "formal"],
      [id |-> <<>>,             score |-> 3, style |-> "casual"] }

\* outfitToSave of saveOutfit: { ...outfit, id: outfit.id || `saved-...`, savedAt }.
OutfitToSave(outfit, idNow, rnd, savedNow) ==
    [id      |-> IF outfit.id # <<>> THEN outfit.id ELSE SavedId(idNow, rnd),
     savedAt |-> savedNow] @@ outfit

\* Array.prototype.filter(outfit => outfit.id !== outfitId).
RECURSIVE FilterOutId(_, _)
FilterOutId(outfits, outfitId) ==
    IF outfits = <<>> THEN <<>>
    ELSE (IF Head(outfits).id # outfitId THEN <<Head(outfits)>> ELSE <<>>)
           \o FilterOutId(Tail(outfits), outfitId)

\* The ids deleteSavedOutfit is called with: those of the saved outfits (the
\* delete button of a saved outfit) and one that is not saved.
IdsToDelete ==
    { storage.saved_outfits[k].id : k \in 1..Len(storage.saved_outfits) }
        \cup { OutfitId(2, "b") }

InitStorage ==
    /\ storage = EmptyStorage
    /\ callArgs = NoCall
    /\ callResult = <<>>
    /\ pc = "idle"
    /\ isFormal = FALSE
    /\ ScorerIdle
    /\ GeneratorIdle

\* saveOutfit(outfit) is called and returns: outfitToSave (callResult holds it)
\* when localStorage.setItem succeeds, null (callResult is empty) when it throws.
SaveOutfit(outfit) ==
    /\ Len(storage.saved_outfits) < MaxSaved
    /\ callArgs' = [fn |-> "saveOutfit", args |-> <<outfit>>]
    /\ \E idNow \in Clock, savedNow \in Clock, rnd \in RandomTails, setItemThrows \in BOOLEAN :
          /\ idNow <= savedNow
          /\ LET outfitToSave == OutfitToSave(outfit, idNow, rnd, savedNow)
             IN  IF setItemThrows
                 THEN /\ storage' = storage
                      /\ callResult' = <<>>
                 ELSE /\ storage' = [storage EXCEPT
                                        !.saved_outfits = Append(@, outfitToSave)]
                      /\ callResult' = <<outfitToSave>>
    /\ UNCHANGED <<genVars, scoreVars>>

\* deleteSavedOutfit(outfitId) is called and returns.
DeleteSavedOutfit(outfitId) ==
    /\ callArgs' = [fn |-> "deleteSavedOutfit", args |-> <<outfitId>>]
    /\ callResult' = <<>>
    /\ \E setItemThrows \in BOOLEAN :
          storage' = IF setItemThrows THEN storage
                     ELSE [storage EXCEPT
                              !.saved_outfits = FilterOutId(@, outfitId)]
    /\ UNCHANGED <<genVars, scoreVars>>

NextStorage ==
    \/ \E outfit \in OutfitsToSave : SaveOutfit(outfit)
    \/ \E outfitId \in IdsToDelete : DeleteSavedOutfit(outfitId)

SpecStorage == InitStorage /\ [][NextStorage]_vars

-----------------------------------------------------------------------------
(* The stored wardrobe: storage.js, UploadWardrobe                         *)

\* The most wardrobe items kept in storage.
MaxStoredItems == 3

\* `item-${Date.now()}-${random}`, kept as its parts.
WardrobeItemId(now, rnd) == <<"item", now, rnd>>

\* The items handed to addWardrobeItem: two as handleFileUpload builds them
\* (with id and addedAt) and one without id.
ItemsToAdd ==
    { [id |-> WardrobeItemId(1, "a"), category |-> "Tops",     addedAt |-> 1],
      [id |-> WardrobeItemId(1, "b"), category |-> "Bottoms",  addedAt |-> 1],
      [id |-> <<>>,                   category |-> "Footwear", addedAt |-> 1] }

\* newItem of addWardrobeItem: { ...item, id: item.id || `item-...`, addedAt }.
NewWardrobeItem(item, idNow, rnd, addedNow) ==
    [id      |-> IF item.id # <<>> THEN item.id ELSE WardrobeItemId(idNow, rnd),
     addedAt |-> addedNow] @@ item

\* The ids deleteWardrobeItem is called with: those of the stored items and one
\* that is not stored.
ItemIdsToDelete ==
    { storage.wardrobe_items[k].id : k \in 1..Len(storage.wardrobe_items) }
        \cup { WardrobeItemId(2, "b") }

\* addWardrobeItem(item) is called and returns newItem (callResult holds it).
\* saveWardrobeItems catches the exception of localStorage.setItem itself, so
\* the catch of addWardrobeItem is not entered and newItem is returned whether
\* or not the write took place.
AddWardrobeItem(item) ==
    /\ Len(storage.wardrobe_items) < MaxStoredItems
    /\ callArgs' = [fn |-> "addWardrobeItem", args |-> <<item>>]
    /\ \E idNow \in Clock, addedNow \in Clock, rnd \in RandomTails, setItemThrows \in BOOLEAN :
          /\ idNow <= addedNow
          /\ LET newItem == NewWardrobeItem(item, idNow, rnd, addedNow)
             IN  /\ storage' = IF setItemThrows THEN storage
                               ELSE [storage EXCEPT
                                        !.wardrobe_items = Append(@, newItem)]
                 /\ callResult' = <<newItem>>
    /\ UNCHANGED <<genVars, scoreVars>>

\* deleteWardrobeItem(itemId) is called and returns filteredItems (callResult
\* holds the list).
DeleteWardrobeItem(itemId) ==
    /\ callArgs' = [fn |-> "deleteWardrobeItem", args |-> <<itemId>>]
    /\ LET filteredItems == FilterOutId(storage.wardrobe_items, itemId)
       IN  /\ \E setItemThrows \in BOOLEAN :
                 storage' = IF setItemThrows THEN storage
                            ELSE [storage EXCEPT !.wardrobe_items = filteredItems]
           /\ callResult' = filteredItems
    /\ UNCHANGED <<genVars, scoreVars>>

NextWardrobe ==
    \/ \E item \in ItemsToAdd : AddWardrobeItem(item)
    \/ \E itemId \in ItemIdsToDelete : DeleteWardrobeItem(itemId)

SpecWardrobe == InitStorage /\ [][NextWardrobe]_vars

-----------------------------------------------------------------------------
(* generateOutfitSuggestions on a wardrobe whose ids are arbitrary strings *)

\* The most candidates asked for of such a wardrobe.
MaxSuggestionsDash == 3

\* An item as generateOutfitSuggestions reads it, with a given id.
ItemWithId(id, category, hsl) == [id |-> id, category |-> category, hsl |-> hsl]

\* Items with the ids "a", "b", "b-c" and "c" (97, 98, 99 are a, b, c; 45 is
\* "-").
DashUniverse ==
    << ItemWithId(<<97>>,         "Tops",     <<0, 80, 20>>),
       ItemWithId(<<98>>,         "Bottoms",  <<180, 60, 80>>),
       ItemWithId(<<98, 45, 99>>, "Bottoms",  <<45, 20, 50>>),
       ItemWithId(<<99>>,         "Footwear", <<10, 50, 50>>) >>

WardrobesDash ==
    { groupItemsByCategory(SubSeqAt(DashUniverse, keep, 1)) :
        keep \in SUBSET (1..Len(DashUniverse)) }

InitDash ==
    /\ wardrobe \in WardrobesDash
    /\ isFormal = FALSE
    /\ maxSuggestions = 0
    /\ pc = "idle"
    /\ suggestions = <<>>
    /\ attempts = 0
    /\ returned = <<>>
    /\ admitted = <<>>
    /\ ScorerIdle
    /\ OthersIdle

NextDash ==
    \/ \E formal \in BOOLEAN, n \in 0..MaxSuggestionsDash : Call(formal, n)
    \/ Iterate
    \/ Return

SpecDash == InitDash /\ [][NextDash]_vars

-----------------------------------------------------------------------------
(* groupItemsByCategory applied to flat item sequences                     *)

\* The longest flat item sequence grouped.
MaxFlatItems == 4

\* Stored items whose categories are spelt in several letter cases.
FlatPool ==
    { NewItem(<<49>>, <<97>>, "Tops",        <<0, 80, 20>>),
      NewItem(<<50>>, <<97>>, "tops",        <<120, 100, 50>>),
      NewItem(<<51>>, <<97>>, "TOPS",        <<100, 5, 90>>),
      NewItem(<<52>>, <<97>>, "Bottoms",     <<180, 60, 80>>),
      NewItem(<<53>>, <<97>>, "bottoms",     <<45, 20, 50>>),
      NewItem(<<54>>, <<97>>, "Footwear",    <<10, 50, 50>>),
      NewItem(<<55>>, <<97>>, "Accessories", <<200, 5, 90>>) }

FlatLists == UNION { [1..n -> FlatPool] : n \in 0..MaxFlatItems }

InitGroup ==
    /\ callArgs \in { [fn |-> "groupItemsByCategory", args |-> <<items>>] :
                         items \in FlatLists }
    /\ callResult = <<>>
    /\ storage = EmptyStorage
    /\ pc = "call"
    /\ isFormal = FALSE
    /\ ScorerIdle
    /\ GeneratorIdle

\* groupItemsByCategory(items) is called and returns.
ApplyGroup ==
    /\ pc = "call"
    /\ callArgs.fn = "groupItemsByCategory"
    /\ callResult' = groupItemsByCategory(callArgs.args[1])
    /\ pc' = "done"
    /\ UNCHANGED <<genVarsButPc, scoreVars, callArgs, storage>>

NextGroup == ApplyGroup

SpecGroup == InitGroup /\ [][NextGroup]_vars

-----------------------------------------------------------------------------
(* The generator under fair scheduling                                     *)

\* The most candidates asked for under fair scheduling.
MaxSuggestionsLive == 1

NextLive ==
    \/ \E formal \in BOOLEAN, n \in 0..MaxSuggestionsLive : Call(formal, n)
    \/ Iterate
    \/ Return

\* The loop of generateOutfitSuggestions is synchronous code: once entered, its
\* iterations and the final sort, slice and return are taken without waiting on
\* anything, so neither stays enabled for ever without happening. The first
\* condition is WF_vars(Iterate) with ENABLED written out: an iteration is
\* possible exactly while the loop condition holds.
SpecLive ==
    /\ Init
    /\ [][NextLive]_vars
    /\ []<>(~(pc = "loop" /\ LoopContinues(suggestions, attempts, maxSuggestions)))
          \/ []<><<Iterate>>_vars
    /\ WF_vars(Return)

-----------------------------------------------------------------------------
(* Vocabulary of the claims                                                *)

\* The set of item identifiers of an item list.
IdSet(items) == { items[k].id : k \in 1..Len(items) }

\* The bucket names in the order the generator visits them.
BucketOrder == <<"tops", "bottoms", "footwear", "accessories">>

\* item is a member of the r-th bucket of the wardrobe.
InBucket(item, r) == item \in Range(Bucket(wardrobe, BucketOrder[r]))

BucketSize(key) == Len(Bucket(wardrobe, key))

\* A call of the generator has returned.
Returned == pc = "done"

-----------------------------------------------------------------------------
(* C1 - C10                                                                *)

\* C1: no two candidates of the returned sequence have the same set of member
\* item identifiers, whatever the order of their items or their scores.
C1_DistinctItemSets ==
    Returned =>
        \A i, j \in 1..Len(returned) :
            i # j => IdSet(returned[i].items) # IdSet(returned[j].items)

\* C1 witness: two candidates were returned after at least one draw was thrown
\* away as a duplicate (no draw of this wardrobe is short of two items).
C1_Witness ==
    /\ Returned
    /\ BucketSize("tops") > 0
    /\ BucketSize("bottoms") > 1
    /\ Len(returned) = 2
    /\ attempts > 2

\* The wardrobe holds exactly one item in each of the four buckets.
OneItemInEveryBucket == \A r \in 1..4 : BucketSize(BucketOrder[r]) = 1

\* C2 as stated: with exactly one item in every bucket, at most one candidate is
\* returned, however large maxSuggestions is.
C2_AtMostOneCandidate ==
    (Returned /\ OneItemInEveryBucket) => Len(returned) <= 1

\* C2 as amended: with exactly one item in every bucket, at most four candidates
\* are returned (top + bottom, with or without the footwear item, with or without
\* the accessory), however large maxSuggestions is.
C2_AtMostFourCandidates ==
    (Returned /\ OneItemInEveryBucket) =>
        Len(returned) <= 4

\* C2 witness: five candidates were asked of a one-item-per-bucket wardrobe and
\* four came back.
C2_Witness ==
    /\ Returned
    /\ OneItemInEveryBucket
    /\ maxSuggestions = 5
    /\ Len(returned) = 4

\* C3: the sampling loop makes at most 200 attempts; every iteration, whatever
\* becomes of its draw, adds exactly one to attempts and runs only while fewer
\* than maxSuggestions candidates are accepted and fewer than 200 attempts are
\* used; and the loop is left only when one of the two limits is reached. The
\* 200 - attempts left decrease with every iteration and never fall below 0, so
\* the call ends after at most 200 iterations.
C3_BoundedLoop ==
    [][/\ attempts' <= 200
       /\ (pc = "loop" /\ pc' = "loop") =>
             /\ attempts' = attempts + 1
             /\ Len(suggestions) < maxSuggestions
             /\ attempts < 200
             /\ Len(suggestions') \in {Len(suggestions), Len(suggestions) + 1}
       /\ (pc = "loop" /\ pc' = "done") =>
             /\ Len(suggestions) >= maxSuggestions \/ attempts = 200
             /\ attempts' = attempts]_vars

\* C3 witness: a call ended on the attempt ceiling with one accepted candidate,
\* so it made one accepting iteration and 199 discarding ones.
C3_Witness ==
    /\ Returned
    /\ attempts = 200
    /\ maxSuggestions = 2
    /\ Len(suggestions) = 1

\* C4: every returned candidate has 2 to 4 items, every item is a member of a
\* bucket of the wardrobe, and the buckets of successive items follow the order
\* tops, bottoms, footwear, accessories strictly (hence at most one per bucket).
C4_CandidateShape ==
    Returned =>
        \A i \in 1..Len(returned) :
            LET items == returned[i].items
            IN  /\ Len(items) >= 2
                /\ Len(items) <= 4
                /\ \A k \in 1..Len(items) : \E r \in 1..4 : InBucket(items[k], r)
                /\ \A k, m \in 1..Len(items) :
                      k < m => \E r, q \in 1..4 :
                                  r < q /\ InBucket(items[k], r) /\ InBucket(items[m], q)

\* C4 witness: a four-item candidate and a two-item candidate were returned, from
\* a wardrobe with two bottoms to choose from.
C4_Witness ==
    /\ Returned
    /\ BucketSize("bottoms") = 2
    /\ \E i, j \in 1..Len(returned) :
          Len(returned[i].items) = 4 /\ Len(returned[j].items) = 2

\* C5: the returned sequence is ordered by score, descending.
C5_SortedByScore ==
    Returned =>
        \A i \in 1..(Len(returned) - 1) : returned[i].score >= returned[i + 1].score

\* C5 witness: the candidate accepted second has the higher score, so the sort
\* moved it to the front.
C5_Witness ==
    /\ Returned
    /\ Len(suggestions) = 2
    /\ suggestions[1].score < suggestions[2].score
    /\ returned = <<suggestions[2], suggestions[1]>>

\* C6: with the tops and the bottoms buckets both empty, a call returns the empty
\* sequence at once, without a sampling attempt, whatever footwear and
\* accessories hold.
C6_NoBaseReturnsEmpty ==
    (pc # "idle" /\ BucketSize("tops") = 0 /\ BucketSize("bottoms") = 0) =>
        /\ pc = "done"
        /\ returned = <<>>
        /\ suggestions = <<>>
        /\ attempts = 0

\* C6 witness: such a call returned although a footwear + accessory pair exists
\* and candidates were asked for.
C6_Witness ==
    /\ Returned
    /\ BucketSize("tops") = 0
    /\ BucketSize("bottoms") = 0
    /\ BucketSize("footwear") > 0
    /\ BucketSize("accessories") > 0
    /\ maxSuggestions >= 1

\* The wardrobe holds one top, one bottom and nothing else.
OnlyTopAndBottom ==
    /\ BucketSize("tops") = 1
    /\ BucketSize("bottoms") = 1
    /\ BucketSize("footwear") = 0
    /\ BucketSize("accessories") = 0

\* C7: from a wardrobe of one top and one bottom, a call with maxSuggestions = 3
\* returns at most one candidate, and a returned candidate holds exactly these
\* two items.
C7_SinglePair ==
    (Returned /\ OnlyTopAndBottom /\ maxSuggestions = 3) =>
        /\ Len(returned) <= 1
        /\ \A i \in 1..Len(returned) :
              /\ Len(returned[i].items) = 2
              /\ Range(returned[i].items)
                   = {Bucket(wardrobe, "tops")[1], Bucket(wardrobe, "bottoms")[1]}

\* C7 witness: such a call returned its one candidate after using every attempt.
C7_Witness ==
    /\ Returned
    /\ OnlyTopAndBottom
    /\ maxSuggestions = 3
    /\ Len(returned) = 1
    /\ attempts = 200

\* No draw can assemble two items: exactly one of tops and bottoms is non-empty,
\* footwear and accessories are empty.
NoPairPossible ==
    /\ (BucketSize("tops") = 0) # (BucketSize("bottoms") = 0)
    /\ BucketSize("footwear") = 0
    /\ BucketSize("accessories") = 0

\* C8 as stated: when no draw can assemble two items, a call uses all 200
\* attempts, accepts nothing and returns the empty sequence.
C8_AllAttemptsUsed ==
    /\ (pc \in {"loop", "done"} /\ NoPairPossible) => suggestions = <<>>
    /\ (Returned /\ NoPairPossible) => (attempts = 200 /\ returned = <<>>)

\* C8 as amended: when no draw can assemble two items, a call accepts nothing
\* and returns the empty sequence, and it uses all 200 attempts if
\* maxSuggestions >= 1 (none if maxSuggestions = 0).
C8_AllAttemptsUsedIfAsked ==
    /\ (pc \in {"loop", "done"} /\ NoPairPossible) => suggestions = <<>>
    /\ (Returned /\ NoPairPossible) =>
          /\ returned = <<>>
          /\ attempts = (IF maxSuggestions >= 1 THEN 200 ELSE 0)

\* C8 witness: such a call, asked for candidates, returned after 200 attempts.
C8_Witness ==
    /\ Returned
    /\ NoPairPossible
    /\ maxSuggestions >= 1
    /\ attempts = 200
    /\ returned = <<>>

\* C9: with fewer than two items scoreOutfitCombination returns score 0 and the
\* explanation "Not enough items for scoring" and nothing else: no pair is
\* scored, no style adjustment is made.
C9_NotEnoughItems ==
    (Returned /\ Len(scoreItems) < 2) =>
        scoring = [score |-> 0, explanation |-> <<"Not enough items for scoring">>]

\* C9 witness: one item was scored whose saturation alone would have earned the
\* casual bonus.
C9_Witness ==
    /\ Returned
    /\ Len(scoreItems) = 1
    /\ ~isFormal
    /\ scoreItems[1].hsl[2] > 40
    /\ scoring.score = 0

\* The hue distance and the neutrality test as the claim words them.
ClaimHueDistance(a, b) ==
    IF a[1] >= b[1]
    THEN (IF a[1] - b[1] <= 360 - (a[1] - b[1]) THEN a[1] - b[1] ELSE 360 - (a[1] - b[1]))
    ELSE (IF b[1] - a[1] <= 360 - (b[1] - a[1]) THEN b[1] - a[1] ELSE 360 - (b[1] - a[1]))

ClaimNeutral(c) ==
    \/ c[2] < 12
    \/ c[3] > 85
    \/ c[3] < 15
    \/ (c[1] >= 30 /\ c[1] <= 60 /\ c[2] < 40)

\* C10: calculateColorHarmony(a, b, isFormal) is (2 if the hue distance is in
\* [150, 210], else 1 if it is <= 30, else 0) + (1 if one lightness is < 30 and
\* the other > 70) + (1 if isFormal and a or b is neutral); it lies in 0..4, and
\* in 0..3 when isFormal is false.
C10_HarmonyFormula ==
    (Returned /\ hslA # <<>>) =>
        LET d == ClaimHueDistance(hslA, hslB)
            hue == IF d >= 150 /\ d <= 210 THEN 2 ELSE IF d <= 30 THEN 1 ELSE 0
            contrast == IF \/ (hslA[3] < 30 /\ hslB[3] > 70)
                           \/ (hslB[3] < 30 /\ hslA[3] > 70)
                        THEN 1 ELSE 0
            neutral == IF isFormal /\ (ClaimNeutral(hslA) \/ ClaimNeutral(hslB))
                       THEN 1 ELSE 0
        IN  /\ harmony = hue + contrast + neutral
            /\ harmony \in 0..4
            /\ ~isFormal => harmony <= 3

\* C10 witness: a formal pair earned all three bonuses.
C10_Witness ==
    /\ Returned
    /\ hslA # <<>>
    /\ isFormal
    /\ harmony = 4

-----------------------------------------------------------------------------
(* C11 - C20                                                               *)

\* The unordered pairs of positions of a list of n items.
UnorderedPairs(n) == { p \in (1..n) \X (1..n) : p[1] < p[2] }

\* The sum of calculateColorHarmony over a set of position pairs.
RECURSIVE ClaimHarmonySum(_, _, _)
ClaimHarmonySum(items, formal, pairs) ==
    IF pairs = {} THEN 0
    ELSE LET p == CHOOSE q \in pairs : TRUE
         IN  calculateColorHarmony(items[p[1]].hsl, items[p[2]].hsl, formal)
               + ClaimHarmonySum(items, formal, pairs \ {p})

\* The sum of the saturations of the items at a set of positions.
RECURSIVE ClaimSaturationTotal(_, _)
ClaimSaturationTotal(items, positions) ==
    IF positions = {} THEN 0
    ELSE LET k == CHOOSE q \in positions : TRUE
         IN  items[k].hsl[2] + ClaimSaturationTotal(items, positions \ {k})

\* The number of neutral items of a list.
ClaimNeutralItems(items) ==
    Cardinality({ k \in 1..Len(items) : ClaimNeutral(items[k].hsl) })

\* C11: for a list of 2 to 4 items the score is the sum of calculateColorHarmony
\* over all unordered pairs plus the style adjustment, applied once: formal,
\* +0.5 per neutral item and -1 if the mean saturation exceeds 55; casual, +0.5
\* if the mean saturation exceeds 40. (Scores are in half points; the mean of n
\* saturations exceeds m exactly when their sum exceeds m * n.)
C11_ScoreIsPairSumPlusStyle ==
    (Returned /\ Len(scoreItems) >= 2 /\ Len(scoreItems) <= 4) =>
        LET n        == Len(scoreItems)
            pairSum  == ClaimHarmonySum(scoreItems, isFormal, UnorderedPairs(n))
            satTotal == ClaimSaturationTotal(scoreItems, 1..n)
            style    == IF isFormal
                        THEN ClaimNeutralItems(scoreItems)
                               - (IF satTotal > 55 * n THEN 2 ELSE 0)
                        ELSE (IF satTotal > 40 * n THEN 1 ELSE 0)
        IN  scoring.score = 2 * pairSum + style

\* C11 witness: four items were scored in formal context, one of them neutral,
\* with a mean saturation above 55 and a positive pair sum.
C11_Witness ==
    /\ Returned
    /\ Len(scoreItems) = 4
    /\ isFormal
    /\ ClaimNeutralItems(scoreItems) = 1
    /\ ClaimSaturationTotal(scoreItems, 1..4) > 220
    /\ ClaimHarmonySum(scoreItems, isFormal, UnorderedPairs(4)) > 0
    /\ scoring.score > 0

\* C12: isNeutralColor([h, s, l]) is true exactly when s < 12, or l > 85, or
\* l < 15, or (30 <= h <= 60 and s < 40), each condition on its own: true for
\* s = 5 at any hue and lightness, true for l = 90 at any saturation, true for
\* h = 45, s = 20, false for h = 0, s = 80, l = 50.
C12_NeutralExactly ==
    (Returned /\ callArgs.fn = "isNeutralColor") =>
        LET h == callArgs.args[1]
            s == callArgs.args[2]
            l == callArgs.args[3]
        IN  /\ callResult = (s < 12 \/ l > 85 \/ l < 15 \/ (30 <= h /\ h <= 60 /\ s < 40))
            /\ s = 5 => callResult
            /\ l = 90 => callResult
            /\ (h = 45 /\ s = 20) => callResult
            /\ (h = 0 /\ s = 80 /\ l = 50) => ~callResult

\* C12 witness: a colour that only the beige/tan condition makes neutral was
\* tested and found neutral.
C12_Witness ==
    /\ Returned
    /\ callArgs = [fn |-> "isNeutralColor", args |-> <<45, 20, 50>>]
    /\ callResult = TRUE

\* C13: for all hues h1, h2 in 0..359, hueDifference(h1, h2) is
\* min(|h1 - h2|, 360 - |h1 - h2|), is the same with the arguments exchanged,
\* lies in [0, 180] (never in (180, 210]) and is 0 when h1 = h2.
C13_HueDifference ==
    (Returned /\ callArgs.fn = "hueDifference") =>
        LET h1 == callArgs.args[1]
            h2 == callArgs.args[2]
            d  == IF h1 >= h2 THEN h1 - h2 ELSE h2 - h1
        IN  /\ callResult = (IF d <= 360 - d THEN d ELSE 360 - d)
            /\ callResult = hueDifference(h2, h1)
            /\ callResult >= 0
            /\ callResult <= 180
            /\ h1 = h2 => callResult = 0

\* C13 witness: two hues that are 350 degrees apart by subtraction were found 10
\* degrees apart.
C13_Witness ==
    /\ Returned
    /\ callArgs = [fn |-> "hueDifference", args |-> <<355, 5>>]
    /\ callResult = 10

\* The harmonyDetails list of the scored items in the given style: the one the
\* call returned for its own style, the one a call in the other style returns.
DetailsInStyle(formal) ==
    IF formal = isFormal
    THEN scoring.details.harmonyDetails
    ELSE scoreOutfitCombination(scoreItems, formal).details.harmonyDetails

\* a is b with some elements left out.
RECURSIVE IsSubsequence(_, _)
IsSubsequence(a, b) ==
    IF a = <<>> THEN TRUE
    ELSE IF b = <<>> THEN FALSE
    ELSE IF Head(a) = Head(b) THEN IsSubsequence(Tail(a), Tail(b))
    ELSE IsSubsequence(a, Tail(b))

\* The number of details of a list that carry (or do not carry) the label
\* "neutral pairing".
NeutralPairings(details) ==
    Cardinality({ k \in 1..Len(details) : details[k].label = "neutral pairing" })

HueDetails(details) ==
    Cardinality({ k \in 1..Len(details) : details[k].label # "neutral pairing" })

\* The pairs whose only harmony is the neutral bonus: a neutral member, a hue
\* distance strictly between 30 and 150, no lightness contrast.
NeutralOnlyPairs(items) ==
    { p \in UnorderedPairs(Len(items)) :
        LET a == items[p[1]].hsl
            b == items[p[2]].hsl
            d == ClaimHueDistance(a, b)
        IN  /\ ClaimNeutral(a) \/ ClaimNeutral(b)
            /\ d > 30
            /\ d < 150
            /\ ~((a[3] < 30 /\ b[3] > 70) \/ (b[3] < 30 /\ a[3] > 70)) }

\* C14 as stated: for every item list of 2 or more items the harmonyDetails
\* list produced in formal context is identical to the one produced in casual
\* context.
C14_SameDetailsInBothStyles ==
    (Returned /\ Len(scoreItems) >= 2) => DetailsInStyle(TRUE) = DetailsInStyle(FALSE)

\* C14 as amended: details are recorded only for pairs whose harmony score is
\* > 0, and the neutral bonus of that score is granted in formal context only.
\* For every item list of 2 or more items the casual harmonyDetails list is the
\* formal list with one "neutral pairing" detail left out for each pair whose
\* only harmony is the neutral bonus, and nothing else left out; the two lists
\* are identical exactly when there is no such pair.
C14_CasualDropsNeutralOnlyPairs ==
    (Returned /\ Len(scoreItems) >= 2) =>
        LET formalList == DetailsInStyle(TRUE)
            casualList == DetailsInStyle(FALSE)
            dropped    == Cardinality(NeutralOnlyPairs(scoreItems))
        IN  /\ IsSubsequence(casualList, formalList)
            /\ NeutralPairings(formalList) = NeutralPairings(casualList) + dropped
            /\ HueDetails(formalList) = HueDetails(casualList)
            /\ (formalList = casualList) <=> (dropped = 0)

\* C14 witness: a casual call returned a list that lacks a "neutral pairing"
\* detail of the formal list.
C14_Witness ==
    /\ Returned
    /\ Len(scoreItems) >= 2
    /\ ~isFormal
    /\ NeutralOnlyPairs(scoreItems) # {}
    /\ Len(scoring.details.harmonyDetails) < Len(DetailsInStyle(TRUE))

\* The pieces of the returned explanation after "<items> -- ": the item names
\* of n items take 4n - 1 pieces, the dash is the piece after them.
ExplanationClause ==
    SubSeq(scoring.explanation, 4 * Len(scoreItems) + 1, Len(scoring.explanation))

\* The returned explanation is the experimental one for the style of the call.
IsExperimental ==
    ExplanationClause = <<"experimental color combination for ",
                          IF isFormal THEN "formal" ELSE "casual", " wear">>

\* C15: with 2 or more items the explanation is "<items> -- experimental color
\* combination for <formal|casual> wear" if and only if the harmony-detail list
\* is empty and no item is neutral; in every other case it is "<items> --
\* <clause>" with a non-empty clause.
C15_ExperimentalIffNothingToSay ==
    (Returned /\ Len(scoreItems) >= 2) =>
        LET n == Len(scoreItems)
        IN  /\ Len(scoring.explanation) > 4 * n
            /\ \A k \in 1..n :
                  scoring.explanation[4 * k - 1] = toLowerCase(scoreItems[k].category)
            /\ scoring.explanation[4 * n] = " -- "
            /\ IsExperimental <=>
                  /\ scoring.details.harmonyDetails = <<>>
                  /\ ClaimNeutralItems(scoreItems) = 0
            /\ ExplanationClause # <<>>

\* C15 witness: a casual call on a list with a neutral item and no harmony
\* detail returned an explanation that is not the experimental one.
C15_Witness ==
    /\ Returned
    /\ Len(scoreItems) >= 2
    /\ ~isFormal
    /\ scoring.details.harmonyDetails = <<>>
    /\ ClaimNeutralItems(scoreItems) > 0
    /\ ~IsExperimental
    /\ ExplanationClause # <<>>

\* C16: every returned candidate is one of the accepted candidates, its item
\* list is the combination that was admitted, and the dedup key recomputed from
\* its items equals the key under which it was admitted.
C16_KeyRoundTrip ==
    /\ Len(admitted) = Len(suggestions)
    /\ Returned =>
          \A i \in 1..Len(returned) :
              \E k \in 1..Len(suggestions) :
                  /\ returned[i] = suggestions[k]
                  /\ returned[i].items = admitted[k].items
                  /\ CombinationKey(returned[i].items) = admitted[k].key

\* C16 witness: two candidates were returned in the reverse of the order of
\* their admission, the first with more than two items.
C16_Witness ==
    /\ Returned
    /\ Len(returned) = 2
    /\ Len(suggestions) = 2
    /\ returned[1] = suggestions[2]
    /\ returned[2] = suggestions[1]
    /\ Len(returned[1].items) > 2
    /\ CombinationKey(returned[1].items) = admitted[2].key

\* C17 as stated: for integer channels in 0..255 rgbToHsl returns a hue in
\* [0, 360) (never 360), a saturation in [0, 100] and a lightness in [0, 100].
C17_HueBelow360 ==
    (Returned /\ callArgs.fn = "rgbToHsl") =>
        /\ callResult[1] \in 0..359
        /\ callResult[2] \in 0..100
        /\ callResult[3] \in 0..100

\* C17 as amended: for integer channels in 0..255 rgbToHsl returns a hue in
\* [0, 360], a saturation in [0, 100] and a lightness in [0, 100]; the hue is 360
\* only for a red between magenta and red that is within half a degree of the
\* wrap (red largest, green < blue, 120 (blue - green) <= red - green), and it
\* is 360 for every such red strictly within half a degree.
C17_HueUpTo360 ==
    (Returned /\ callArgs.fn = "rgbToHsl") =>
        LET r == callArgs.args[1]
            g == callArgs.args[2]
            b == callArgs.args[3]
        IN  /\ callResult[1] \in 0..360
            /\ callResult[2] \in 0..100
            /\ callResult[3] \in 0..100
            /\ callResult[1] = 360 => (r >= b /\ g < b /\ 120 * (b - g) <= r - g)
            /\ (r >= b /\ g < b /\ 120 * (b - g) < r - g) => callResult[1] = 360

\* C17 witness: rgb(255, 0, 1), whose hue is 359.76 degrees, was converted to
\* hue 360.
C17_Witness ==
    /\ Returned
    /\ callArgs = [fn |-> "rgbToHsl", args |-> <<255, 0, 1>>]
    /\ callResult = <<360, 100, 50>>

\* The identifiers of a sequence of saved outfits.
SavedIds(outfits) == { outfits[k].id : k \in 1..Len(outfits) }

\* C18 as stated: a saveOutfit call that succeeds appends exactly one record to
\* the end of the saved outfits and leaves the records before it unchanged; when
\* the outfit saved is a suggestion (it carries the suggestion's id), the
\* identifier of the appended record is not the identifier of any record saved
\* before, so that saved identifiers stay pairwise distinct; and a
\* deleteSavedOutfit(id) call that succeeds for a saved id removes exactly one
\* record.
C18_FreshIdOnSave ==
    [][/\ (callArgs'.fn = "saveOutfit" /\ callResult' # <<>>) =>
             /\ Len(storage'.saved_outfits) = Len(storage.saved_outfits) + 1
             /\ SubSeq(storage'.saved_outfits, 1, Len(storage.saved_outfits))
                   = storage.saved_outfits
             /\ callArgs'.args[1].id # <<>> =>
                   storage'.saved_outfits[Len(storage'.saved_outfits)].id
                       \notin SavedIds(storage.saved_outfits)
       /\ (/\ callArgs'.fn = "deleteSavedOutfit"
           /\ callArgs'.args[1] \in SavedIds(storage.saved_outfits)
           /\ storage' # storage) =>
             Len(storage'.saved_outfits) = Len(storage.saved_outfits) - 1]_vars

\* The combinations the loop can draw from the wardrobe.
PossibleDraws ==
    { Combination(wardrobe, d[1], d[2], d[3], d[4], d[5], d[6]) :
        d \in DrawIndex(Bucket(wardrobe, "tops")) \X DrawIndex(Bucket(wardrobe, "bottoms"))
                \X BOOLEAN \X DrawIndex(Bucket(wardrobe, "footwear"))
                \X BOOLEAN \X DrawIndex(Bucket(wardrobe, "accessories")) }

\* C19 as stated: while the loop runs, every draw of 2 or more items whose set
\* of item identifiers differs from the identifier set of every accepted
\* candidate passes the duplicate test (and is accepted), whatever characters
\* the identifiers contain.
C19_OnlySameSetDiscarded ==
    pc = "loop" =>
        \A combination \in PossibleDraws :
            (/\ EnoughItems(combination)
             /\ \A k \in 1..Len(suggestions) :
                   IdSet(suggestions[k].items) # IdSet(combination))
                => ~Exists(suggestions, combination)

\* A set of position pairs as a sequence, first position ascending, then second
\* position ascending.
RECURSIVE InPairOrder(_)
InPairOrder(pairs) ==
    IF pairs = {} THEN <<>>
    ELSE LET least == CHOOSE p \in pairs :
                         \A q \in pairs : p[1] < q[1] \/ (p[1] = q[1] /\ p[2] <= q[2])
         IN  <<least>> \o InPairOrder(pairs \ {least})

\* The details the claim gives one pair: none at harmony score 0; otherwise the
\* hue detail, if any, then the neutral pairing, if a member is neutral.
ClaimPairDetails(a, b, formal) ==
    LET d     == ClaimHueDistance(a.hsl, b.hsl)
        named == [first |-> a.category, second |-> b.category]
    IN  IF calculateColorHarmony(a.hsl, b.hsl, formal) > 0
        THEN (IF d >= 150 /\ d <= 210
              THEN <<named @@ [label |-> "complementary colors"]>>
              ELSE IF d <= 30
              THEN <<named @@ [label |-> "analogous harmony"]>>
              ELSE <<>>)
             \o (IF ClaimNeutral(a.hsl) \/ ClaimNeutral(b.hsl)
                 THEN <<named @@ [label |-> "neutral pairing"]>>
                 ELSE <<>>)
        ELSE <<>>

RECURSIVE ClaimDetailsOver(_, _, _)
ClaimDetailsOver(items, formal, pairs) ==
    IF pairs = <<>> THEN <<>>
    ELSE ClaimPairDetails(items[Head(pairs)[1]], items[Head(pairs)[2]], formal)
           \o ClaimDetailsOver(items, formal, Tail(pairs))

\* C20: the harmony details are those of the pairs (i < j) taken with i
\* ascending, then j ascending; a pair records a hue detail only if its harmony
\* score is > 0 ("complementary colors" at a hue distance in [150, 210],
\* otherwise "analogous harmony" at a hue distance <= 30, otherwise none), a pair
\* with harmony score 0 records nothing, and within a pair the hue detail comes
\* before the "neutral pairing" detail.
C20_DetailsInPairOrder ==
    (Returned /\ Len(scoreItems) >= 2) =>
        scoring.details.harmonyDetails
            = ClaimDetailsOver(scoreItems, isFormal,
                               InPairOrder(UnorderedPairs(Len(scoreItems))))

\* C20 witness: of three items, the first pair recorded a hue detail followed by
\* its neutral pairing, another pair scored 0 and recorded nothing.
C20_Witness ==
    /\ Returned
    /\ Len(scoreItems) = 3
    /\ Len(scoring.details.harmonyDetails) >= 2
    /\ scoring.details.harmonyDetails[1].label = "complementary colors"
    /\ scoring.details.harmonyDetails[2].label = "neutral pairing"
    /\ calculateColorHarmony(scoreItems[1].hsl, scoreItems[2].hsl, isFormal) > 1
    /\ \E p \in UnorderedPairs(3) :
          calculateColorHarmony(scoreItems[p[1]].hsl, scoreItems[p[2]].hsl, isFormal) = 0

-----------------------------------------------------------------------------
(* C21 - C30                                                               *)

\* The two closing remarks and the three detail labels.
ClosingRemarks == {" -- professional and sophisticated", " -- vibrant and expressive"}

DetailLabels == {"complementary colors", "analogous harmony", "neutral pairing"}

\* The clause of the returned explanation without its closing remark.
ClauseBody ==
    IF ExplanationClause # <<>> /\ ExplanationClause[Len(ExplanationClause)] \in ClosingRemarks
    THEN SubSeq(ExplanationClause, 1, Len(ExplanationClause) - 1)
    ELSE ExplanationClause

\* C21: a non-experimental clause starts with "All neutral palette" exactly when
\* every item is neutral, with "<n> neutral item(s) provide balance" when
\* 0 < n < item count; then, if a harmony detail exists, comes the label of the
\* first recorded detail alone, after "; " when a neutral part precedes it; no
\* other detail label appears.
C21_NeutralPartThenFirstDetail ==
    (Returned /\ Len(scoreItems) >= 2 /\ ~IsExperimental) =>
        LET count   == Len(scoreItems)
            n       == ClaimNeutralItems(scoreItems)
            details == scoring.details.harmonyDetails
            neutralPart ==
                IF n = count THEN <<"All neutral palette">>
                ELSE IF n > 1 THEN <<ToString(n), " neutral item", "s", " provide balance">>
                ELSE IF n = 1 THEN <<"1", " neutral item", " provide balance">>
                ELSE <<>>
            detailPart ==
                IF details = <<>> THEN <<>>
                ELSE IF neutralPart # <<>> THEN <<"; ", details[1].label>>
                ELSE <<details[1].label>>
        IN  /\ ClauseBody = neutralPart \o detailPart
            /\ (ClauseBody[1] = "All neutral palette") <=> (n = count)
            /\ Cardinality({ k \in 1..Len(ExplanationClause) :
                               ExplanationClause[k] \in DetailLabels })
                  = (IF details = <<>> THEN 0 ELSE 1)

\* C21 witness: one neutral item among several, and several details whose first
\* and last labels differ; the clause quotes the first.
C21_Witness ==
    /\ Returned
    /\ Len(scoreItems) >= 3
    /\ ClaimNeutralItems(scoreItems) = 1
    /\ Len(scoring.details.harmonyDetails) >= 2
    /\ scoring.details.harmonyDetails[1].label
          # scoring.details.harmonyDetails[Len(scoring.details.harmonyDetails)].label
    /\ SubSeq(ExplanationClause, 1, 5)
          = <<"1", " neutral item", " provide balance", "; ",
              scoring.details.harmonyDetails[1].label>>

\* The positions of the returned clause that hold the given piece.
ClausePositions(piece) ==
    { k \in 1..Len(ExplanationClause) : ExplanationClause[k] = piece }

\* C22: a non-experimental explanation closes with " -- professional and
\* sophisticated" exactly when the context is formal and an item is neutral,
\* with " -- vibrant and expressive" exactly when the context is casual and the
\* mean saturation exceeds 50 (the sum exceeds 50 times the item count), and
\* with neither otherwise; a remark stands once, at the end; the two never stand
\* together; the experimental explanation carries none.
C22_ClosingRemark ==
    (Returned /\ Len(scoreItems) >= 2) =>
        LET count        == Len(scoreItems)
            professional == ClausePositions(" -- professional and sophisticated")
            vibrant      == ClausePositions(" -- vibrant and expressive")
            formalCase   == isFormal /\ ClaimNeutralItems(scoreItems) > 0
            casualCase   == ~isFormal /\ ClaimSaturationTotal(scoreItems, 1..count) > 50 * count
        IN  /\ professional \subseteq {Len(ExplanationClause)}
            /\ vibrant \subseteq {Len(ExplanationClause)}
            /\ professional = {} \/ vibrant = {}
            /\ IsExperimental => (professional = {} /\ vibrant = {})
            /\ ~IsExperimental =>
                  /\ (professional # {}) <=> formalCase
                  /\ (vibrant # {}) <=> casualCase

\* C22 witness: a casual list with a harmony detail and a mean saturation above
\* 50 was called vibrant.
C22_Witness ==
    /\ Returned
    /\ Len(scoreItems) >= 2
    /\ ~isFormal
    /\ ~IsExperimental
    /\ ClaimSaturationTotal(scoreItems, 1..Len(scoreItems)) > 50 * Len(scoreItems)
    /\ ExplanationClause[Len(ExplanationClause)] = " -- vibrant and expressive"

\* C23: every returned candidate carries the score, explanation and details of
\* scoreOutfitCombination(candidate.items, isFormal) and the style tag of the
\* call: "formal" if isFormal, "casual" otherwise.
C23_ScoredUnderCallStyle ==
    Returned =>
        \A i \in 1..Len(returned) :
            LET own == scoreOutfitCombination(returned[i].items, isFormal)
            IN  /\ returned[i].score = own.score
                /\ returned[i].explanation = own.explanation
                /\ returned[i].details = own.details
                /\ returned[i].style = (IF isFormal THEN "formal" ELSE "casual")

\* C23 witness: a formal call returned a candidate whose items score
\* differently in casual context.
C23_Witness ==
    /\ Returned
    /\ isFormal
    /\ Len(returned) >= 1
    /\ returned[1].style = "formal"
    /\ returned[1].score # scoreOutfitCombination(returned[1].items, FALSE).score
    /\ returned[1].score = scoreOutfitCombination(returned[1].items, TRUE).score

\* Every item of the candidates is an item of the wardrobe, as the wardrobe
\* holds it.
ItemsAreWardrobeItems(candidates) ==
    \A i \in 1..Len(candidates) :
        \A k \in 1..Len(candidates[i].items) :
            \E r \in 1..4 : InBucket(candidates[i].items[k], r)

\* C24: no step of generateOutfitSuggestions (its scoring of the draws
\* included) changes the wardrobe: every bucket keeps its items, in order, with
\* their id, category and hsl, and the candidates hold these very items; and a
\* call starts with an empty accepted set and no attempt made, whatever the call
\* before it left.
C24_InputsUnchanged ==
    [][/\ wardrobe' = wardrobe
       /\ ItemsAreWardrobeItems(suggestions')
       /\ ItemsAreWardrobeItems(returned')
       /\ pc \in {"idle", "done"} =>
             /\ suggestions' = <<>>
             /\ attempts' = 0
             /\ returned' = <<>>]_vars

\* C24 witness: a call returned two candidates of three items each, drawn from a
\* wardrobe of two tops or two bottoms, and the candidates hold the wardrobe's
\* items.
C24_Witness ==
    /\ Returned
    /\ Len(returned) = 2
    /\ Len(returned[1].items) = 3
    /\ Len(returned[2].items) = 3
    /\ BucketSize("bottoms") = 2
    /\ ItemsAreWardrobeItems(returned)

\* The sum of the lengths of the buckets under a set of keys.
RECURSIVE BucketsTotal(_, _)
BucketsTotal(groups, keys) ==
    IF keys = {} THEN 0
    ELSE LET key == CHOOSE k \in keys : TRUE
         IN  Len(groups[key]) + BucketsTotal(groups, keys \ {key})

\* C25: groupItemsByCategory partitions the flat sequence by case-insensitive
\* category: the buckets are keyed by the lower-cased categories that occur,
\* each bucket holds exactly the input items of that lower-cased category in
\* their input order (so categories that differ only in letter case share a
\* bucket), and every input item is in exactly one bucket.
C25_PartitionByCategory ==
    (Returned /\ callArgs.fn = "groupItemsByCategory") =>
        LET items == callArgs.args[1]
        IN  /\ DOMAIN callResult = { toLowerCase(items[i].category) : i \in 1..Len(items) }
            /\ \A key \in DOMAIN callResult :
                  callResult[key]
                     = SelectSeq(items, LAMBDA item : toLowerCase(item.category) = key)
            /\ \A i \in 1..Len(items) :
                  \A key \in DOMAIN callResult :
                      (items[i] \in Range(callResult[key]))
                         <=> (key = toLowerCase(items[i].category))
            /\ BucketsTotal(callResult, DOMAIN callResult) = Len(items)

\* C25 witness: a "tops" item, a "Bottoms" item and a "TOPS" item were grouped;
\* the two tops share the bucket "tops" in input order.
C25_Witness ==
    /\ Returned
    /\ callArgs.fn = "groupItemsByCategory"
    /\ Len(callArgs.args[1]) = 3
    /\ callArgs.args[1][1].category = "tops"
    /\ callArgs.args[1][2].category = "Bottoms"
    /\ callArgs.args[1][3].category = "TOPS"
    /\ DOMAIN callResult = {"tops", "bottoms"}
    /\ callResult["tops"] = <<callArgs.args[1][1], callArgs.args[1][3]>>

\* C26: at every point of the loop the accepted candidates number at most
\* maxSuggestions; the returned sequence has at most maxSuggestions candidates
\* and holds every accepted candidate (the truncation drops none); with
\* maxSuggestions = 0 the call returns the empty sequence and makes no attempt.
C26_AcceptedWithinMax ==
    /\ Len(suggestions) <= maxSuggestions
    /\ Returned =>
          /\ Len(returned) <= maxSuggestions
          /\ Len(returned) = Len(suggestions)
          /\ \A k \in 1..Len(suggestions) :
                \E i \in 1..Len(returned) : returned[i] = suggestions[k]
          /\ maxSuggestions = 0 => (returned = <<>> /\ attempts = 0)

\* C26 witness: a call for two candidates accepted two, before the attempts ran
\* out, and returned both.
C26_Witness ==
    /\ Returned
    /\ maxSuggestions = 2
    /\ Len(suggestions) = 2
    /\ attempts < 200
    /\ Len(returned) = 2

\* The tops bucket and the bottoms bucket are both non-empty.
TopAndBottomPresent == BucketSize("tops") > 0 /\ BucketSize("bottoms") > 0

\* C27: if the tops and the bottoms bucket are both non-empty and
\* maxSuggestions >= 1, the first attempt assembles at least 2 items and is
\* accepted, whatever is drawn, and the call, once in its loop, returns at least
\* one candidate.
C27_AtLeastOneCandidate ==
    /\ [](/\ (pc = "loop" /\ TopAndBottomPresent /\ attempts >= 1) =>
                Len(suggestions) >= 1
          /\ (Returned /\ TopAndBottomPresent /\ maxSuggestions >= 1) =>
                Len(returned) >= 1)
    /\ (pc = "loop" /\ TopAndBottomPresent /\ maxSuggestions >= 1)
          ~> (Returned /\ Len(returned) >= 1)

\* C27 witness: a wardrobe of one top and one bottom, asked for a candidate,
\* returned one after a single attempt.
C27_Witness ==
    /\ Returned
    /\ OnlyTopAndBottom
    /\ maxSuggestions >= 1
    /\ attempts = 1
    /\ Len(returned) = 1

\* C28: for a list of 2 to 4 items the score is a whole number of half points;
\* in casual context it is never negative; in formal context it is never below
\* -1 (-2 half points), and it is negative only when no item is neutral, every
\* pair has harmony score 0 and the mean saturation exceeds 55, and it is then
\* exactly -1.
C28_ScoreBounds ==
    (Returned /\ Len(scoreItems) >= 2 /\ Len(scoreItems) <= 4) =>
        LET n        == Len(scoreItems)
            lowest   == ClaimNeutralItems(scoreItems) = 0
                          /\ \A p \in UnorderedPairs(n) :
                                calculateColorHarmony(scoreItems[p[1]].hsl,
                                                      scoreItems[p[2]].hsl, isFormal) = 0
                          /\ ClaimSaturationTotal(scoreItems, 1..n) > 55 * n
        IN  /\ scoring.score \in Int
            /\ ~isFormal => scoring.score >= 0
            /\ isFormal => scoring.score >= -2
            /\ scoring.score < 0 => (isFormal /\ lowest)
            /\ (isFormal /\ lowest) => scoring.score = -2

\* C28 witness: a formal list of vivid items without any harmony scored -1.
C28_Witness ==
    /\ Returned
    /\ Len(scoreItems) = 3
    /\ isFormal
    /\ ClaimNeutralItems(scoreItems) = 0
    /\ scoring.score = -2

\* The list with the items at positions i and i + 1 exchanged.
SwappedAt(items, i) ==
    [k \in 1..Len(items) |->
        IF k = i THEN items[i + 1] ELSE IF k = i + 1 THEN items[i] ELSE items[k]]

\* The list with its first item moved to the end.
Rotated(items) == Tail(items) \o <<Head(items)>>

\* The numbers of a result that the order of the items is said not to change.
OrderFreePart(result) ==
    <<result.score, result.details.neutralCount, result.details.avgSaturation>>

\* C29: score, neutralCount and avgSaturation do not depend on the order of the
\* items: exchanging the first two items changes none of them, nor does moving
\* the first item to the end (every permutation is a chain of these two, and
\* every list is checked), and calculateColorHarmony gives the same for (a, b)
\* and (b, a).
C29_OrderIndependent ==
    (Returned /\ Len(scoreItems) >= 2) =>
        /\ \A other \in {SwappedAt(scoreItems, 1), Rotated(scoreItems)} :
              OrderFreePart(scoreOutfitCombination(other, isFormal))
                 = OrderFreePart(scoring)
        /\ \A p \in UnorderedPairs(Len(scoreItems)) :
              calculateColorHarmony(scoreItems[p[1]].hsl, scoreItems[p[2]].hsl, isFormal)
                 = calculateColorHarmony(scoreItems[p[2]].hsl, scoreItems[p[1]].hsl, isFormal)

\* C29 witness: three different items were scored, a light one before a dark
\* one (a contrast pair in the second order), and the list with the two
\* exchanged has the same score.
C29_Witness ==
    /\ Returned
    /\ Len(scoreItems) = 3
    /\ scoreItems[1].hsl[3] > 70
    /\ scoreItems[2].hsl[3] < 30
    /\ scoreItems[3] # scoreItems[1]
    /\ scoring.score > 0
    /\ scoreOutfitCombination(SwappedAt(scoreItems, 1), isFormal).score = scoring.score

\* C30: addWardrobeItem reports persistence faithfully: when it returns an item,
\* the stored wardrobe is the earlier one with that item appended, and when the
\* stored wardrobe is left as it was (the write failed) it returns null.
C30_FaithfulPersistence ==
    [][ callArgs'.fn = "addWardrobeItem" =>
          /\ callResult' # <<>> =>
                storage'.wardrobe_items
                    = Append(storage.wardrobe_items, callResult'[1])
          /\ storage'.wardrobe_items = storage.wardrobe_items =>
                callResult' = <<>>
      ]_vars

=============================================================================
